---- MODULE Spec2Model ----
(***************************************************************************)
(* Connection registry and pooling layer of the pg-mcp server              *)
(* (server/database.py, server/tools/connection.py, server/tools/query.py).*)
(*                                                                         *)
(* Strings are sequences of tokens: a connection string such as            *)
(*   postgresql://user:pw@host:5432/db?sslmode=require                     *)
(* is <<"postgresql://", "user:pw@host:5432", "/", "db", "?", "sslmode">>. *)
(* The empty string is <<>>.  Handlers run as asyncio tasks on one event   *)
(* loop: a handler runs atomically from one await that suspends to the     *)
(* next, so every action below is one such stretch of code.                *)
(***************************************************************************)
EXTENDS Naturals, Sequences, FiniteSets

\* ------------------------------------------------------------------ bounds
NumTasks == 2
MaxPools == 2

\* asyncpg.create_pool(..., max_size=10)
max_size == 10

Tasks == 1 .. NumTasks

\* ------------------------------------------------------------ input alphabet
Scheme == "postgresql://"
Authorities == {"user:pw@host:5432"}
Databases == {"db", "db2"}
QueryStrings == {<<>>, <<"?", "sslmode=require">>}

\* A descriptor as a caller writes it: optional scheme, authority, /database,
\* optional ?query.
Descriptor(withScheme, auth, db, qs) ==
    (IF withScheme THEN <<Scheme>> ELSE <<>>) \o <<auth, "/", db>> \o qs

Descriptors ==
    { Descriptor(s, a, d, q) : s \in BOOLEAN, a \in Authorities,
                               d \in Databases, q \in QueryStrings }

EmptyId == <<>>

\* --------------------------------------------------------------- dict helpers
Put(f, k, v) == [x \in (DOMAIN f) \cup {k} |-> IF x = k THEN v ELSE f[x]]

Del(f, k) == [x \in (DOMAIN f) \ {k} |-> f[x]]

EmptyDict == [x \in {} |-> <<>>]

\* ------------------------------------------------------- identifier mapper
\* str.startswith("postgresql://")
startswith(s, prefix) == Len(s) >= 1 /\ s[1] = prefix

\* Index of the first token of s, from position i on, that is in stops
\* (Len(s)+1 when there is none).
RECURSIVE FindFirst(_, _, _)
FindFirst(s, i, stops) ==
    IF i > Len(s) THEN Len(s) + 1
    ELSE IF s[i] \in stops THEN i
    ELSE FindFirst(s, i + 1, stops)

\* urlparse with the query string left in the path.
urlparse_KeepsQuery(url) ==
    LET hasNetloc == startswith(url, Scheme)
        rest == IF hasNetloc THEN Tail(url) ELSE url
        nEnd == IF hasNetloc THEN FindFirst(rest, 1, {"/", "?", "#"}) ELSE 1
    IN [netloc |-> SubSeq(rest, 1, nEnd - 1),
        path   |-> SubSeq(rest, nEnd, Len(rest)),
        query  |-> <<>>]

\* urllib.parse.urlparse on a URL: after "scheme://" the netloc runs to the
\* first of "/", "?", "#"; the path runs from there to the first "?" or "#".
\* Without the "//" marker there is no netloc.
urlparse(url) ==
    LET hasNetloc == startswith(url, Scheme)
        rest == IF hasNetloc THEN Tail(url) ELSE url
        nEnd == IF hasNetloc THEN FindFirst(rest, 1, {"/", "?", "#"}) ELSE 1
        pEnd == FindFirst(rest, nEnd, {"?", "#"})
    IN [netloc |-> SubSeq(rest, 1, nEnd - 1),
        path   |-> SubSeq(rest, nEnd, pEnd - 1),
        query  |-> SubSeq(rest, pEnd, Len(rest))]

\* uuid.uuid5(NAMESPACE_URL, name): a name-based hash, injective on the
\* names of the model.
uuid5(name) == <<"uuid5">> \o name

postgres_connection_to_uuid(connection_string) ==
    LET parsed == urlparse(connection_string)
    IN uuid5(parsed.netloc \o parsed.path)

\* A registration that stores the descriptor as the caller wrote it.
Canonical_NoPrefix(connection_string) == connection_string

Canonical(connection_string) ==
    IF ~ startswith(connection_string, Scheme)
    THEN <<Scheme>> \o connection_string
    ELSE connection_string

\* A client that derives the identifier from the credentials and host alone.
cli_postgres_connection_to_uuid_NetlocOnly(connection_string) ==
    LET prefixed == IF ~ startswith(connection_string, Scheme)
                    THEN <<Scheme>> \o connection_string
                    ELSE connection_string
    IN uuid5(urlparse(prefixed).netloc)

\* client/cli.py postgres_connection_to_uuid: the identifier the client
\* computes for itself, prefixing the scheme before it parses.
cli_postgres_connection_to_uuid(connection_string) ==
    LET prefixed == IF ~ startswith(connection_string, Scheme)
                    THEN <<Scheme>> \o connection_string
                    ELSE connection_string
        parsed == urlparse(prefixed)
    IN uuid5(parsed.netloc \o parsed.path)

\* What the clients of the concurrent specification send: two descriptors of
\* one target that differ in scheme and query string, and the identifiers a
\* client can hold: the one derived from them and the empty string.
D1 == Descriptor(FALSE, "user:pw@host:5432", "db", <<>>)

D2 == Descriptor(TRUE, "user:pw@host:5432", "db", <<"?", "sslmode=require">>)

ClientDescriptors == {D1, D2}

ConnIds ==
    { postgres_connection_to_uuid(Canonical(d)) : d \in ClientDescriptors } \cup {EmptyId}

\* -------------------------------------------------------------------- state
VARIABLES
    _pools,           \* Database._pools: conn_id -> pool handle
    _connection_map,  \* Database._connection_map: conn_id -> connection string
    _reverse_map,     \* Database._reverse_map: connection string -> conn_id
    pool,             \* the asyncpg pools, by handle
    task,             \* the handler each client task is suspended in
    returned,         \* the call that returned in the last step, if one did
    registered        \* history: descriptor -> identifier register_connection gave

vars == <<_pools, _connection_map, _reverse_map, pool, task, returned, registered>>

registry == <<_pools, _connection_map, _reverse_map>>

PoolHandles == 1 .. MaxPools

\* A handle no pool has: the object was never constructed, or was closed and
\* is referenced by nothing any more.
Unused == [state |-> "unused", conn_id |-> <<>>, dsn |-> <<>>, leased |-> 0]

\* Results of a handler.
Returns(v) == [kind |-> "return", val |-> v]

Raises(cls, msg) == [kind |-> "raise", val |-> <<cls, msg>>]

NoCall == [op |-> "none", arg |-> <<>>, ret |-> [kind |-> "none", val |-> <<>>]]

Call(op, arg, ret) == [op |-> op, arg |-> arg, ret |-> ret]

\* A task: where it is suspended (pc), in which call (op, arg), and its local
\* variables: the connection string (dsn), the pool it awaits or leases from
\* (pool), the entries close() has still to visit (snapshot), and the text of
\* the statement execute_query was given (query; <<>> where the text is not
\* followed).
IdleTask ==
    [pc |-> "idle", op |-> "none", arg |-> <<>>, dsn |-> <<>>, pool |-> 0,
     snapshot |-> <<>>, query |-> <<>>]

Suspended(pc, op, arg, dsn, p) ==
    [pc |-> pc, op |-> op, arg |-> arg, dsn |-> dsn, pool |-> p,
     snapshot |-> <<>>, query |-> <<>>]

\* Database.__init__ and app_lifespan: an empty registry, no pool, no task.
Init ==
    /\ _pools = EmptyDict
    /\ _connection_map = EmptyDict
    /\ _reverse_map = EmptyDict
    /\ pool = [p \in PoolHandles |-> Unused]
    /\ task = [t \in Tasks |-> IdleTask]
    /\ returned = NoCall
    /\ registered = EmptyDict

\* ------------------------------------------------------ Database (registry)
\* register_connection whose identifiers depend on what is registered
\* already.
register_connection_HistoryDependent(connection_string) ==
    LET cs == Canonical(connection_string)
    IN  IF cs \in DOMAIN _reverse_map
        THEN [conn_id |-> _reverse_map[cs],
              cmap |-> _connection_map, rmap |-> _reverse_map]
        ELSE LET conn_id == IF _connection_map = EmptyDict
                            THEN postgres_connection_to_uuid(cs)
                            ELSE postgres_connection_to_uuid(cs) \o <<"2">>
             IN [conn_id |-> conn_id,
                 cmap |-> Put(_connection_map, conn_id, cs),
                 rmap |-> Put(_reverse_map, cs, conn_id)]

\* register_connection whose early return (line 57) hands back the key it
\* looked up instead of the identifier stored under it.
register_connection_ReturnsKey(connection_string) ==
    LET cs == Canonical(connection_string)
    IN  IF cs \in DOMAIN _reverse_map
        THEN [conn_id |-> cs,
              cmap |-> _connection_map, rmap |-> _reverse_map]
        ELSE LET conn_id == postgres_connection_to_uuid(cs)
             IN [conn_id |-> conn_id,
                 cmap |-> Put(_connection_map, conn_id, cs),
                 rmap |-> Put(_reverse_map, cs, conn_id)]

\* get_connection_string without the check of lines 72-73.
get_connection_string_NoCheck(conn_id) ==
    IF conn_id \notin DOMAIN _connection_map
    THEN [ok |-> TRUE, val |-> <<"None">>]
    ELSE [ok |-> TRUE, val |-> _connection_map[conn_id]]

\* A lease that is given back only when the body returns normally.
ReleaseOnExit_OnlyOnReturn(po, p, how) ==
    IF how = "return" THEN [po EXCEPT ![p].leased = @ - 1] ELSE po

\* disconnect whose handler lets the exception through.
except_Exception_Propagates(cls) == Raises(cls, "disconnect")

\* tools/connection.py disconnect lines 63-65, "except Exception as e": the
\* exception of class cls raised inside the try becomes the answer
\* {"success": False, "error": str(e)}.
except_Exception(cls) == Returns(<<"success: False", cls>>)

\* Database.register_connection: the identifier returned and the two maps
\* as the call leaves them.
register_connection(connection_string) ==
    LET cs == Canonical(connection_string)
    IN  IF cs \in DOMAIN _reverse_map
        THEN [conn_id |-> _reverse_map[cs],
              cmap |-> _connection_map, rmap |-> _reverse_map]
        ELSE LET conn_id == postgres_connection_to_uuid(cs)
             IN [conn_id |-> conn_id,
                 cmap |-> Put(_connection_map, conn_id, cs),
                 rmap |-> Put(_reverse_map, cs, conn_id)]

\* Database.get_connection_string: the connection string, or the ValueError.
get_connection_string(conn_id) ==
    IF conn_id \notin DOMAIN _connection_map
    THEN [ok |-> FALSE, val |-> <<>>]
    ELSE [ok |-> TRUE, val |-> _connection_map[conn_id]]

\* asyncpg Pool.acquire on pool p, reached from get_connection line 107 with
\* no suspension since the lookup of _pools[conn_id]: a pool that is closing
\* or closed raises InterfaceError; a free slot is leased at once; a full
\* pool makes the caller wait.
Acquire(op, conn_id, po, p) ==
    IF po[p].state # "open"
    THEN [task |-> IdleTask, pool |-> po,
          returned |-> Call(op, conn_id, Raises("InterfaceError", po[p].state))]
    ELSE IF po[p].leased < max_size
    THEN [task |-> Suspended("fetch", op, conn_id, <<>>, p),
          pool |-> [po EXCEPT ![p].leased = @ + 1],
          returned |-> NoCall]
    ELSE [task |-> Suspended("acquire", op, conn_id, <<>>, p),
          pool |-> po,
          returned |-> NoCall]

\* The exit of "async with self._pools[conn_id].acquire() as conn": the
\* connection goes back to pool p however the body ended ("return", "raise",
\* "cancel").
ReleaseOnExit(po, p, how) == [po EXCEPT ![p].leased = @ - 1]

\* The statement text is a local of execute_query: it lives as long as the
\* call does.
Carry(tk, query) == IF tk.pc = "idle" THEN tk ELSE [tk EXCEPT !.query = query]

\* A closed pool that no task and no registry entry refers to is garbage.
Collect(po, pmap, tk) ==
    [p \in DOMAIN po |->
        IF /\ po[p].state = "closed"
           /\ \A id \in DOMAIN pmap : pmap[id] # p
           /\ \A t \in DOMAIN tk :
                 /\ tk[t].pool # p
                 /\ \A i \in DOMAIN tk[t].snapshot : tk[t].snapshot[i][2] # p
        THEN Unused ELSE po[p]]

\* Pools constructed and under construction.
PoolsInUse ==
    Cardinality({p \in PoolHandles : pool[p].state # "unused"})
    + Cardinality({t \in Tasks : task[t].pc = "create_pool"})

\* execute_query lines 34-40: the statements task t has sent on the
\* connection it leases.  Line 36 (SET TRANSACTION READ ONLY) is a comment,
\* so the query of line 40 is the only one.
execute_query_statements(t) ==
    IF task[t].pc = "fetch" THEN <<"query">> ELSE <<>>

\* data.py:16 and data.py:30.
sanitize_query ==
    <<"SELECT quote_ident($1) AS schema_ident, quote_ident($2) AS table_ident">>

\* ------------------------------------------------------------------ handlers
\* A connect that goes on to construct the pool of what it registered.
connect_EagerPool(t, connection_string) ==
    /\ task[t].pc = "idle"
    /\ PoolsInUse < MaxPools
    /\ LET r == register_connection(connection_string)
       IN /\ _connection_map' = r.cmap
          /\ _reverse_map' = r.rmap
          /\ registered' = Put(registered, connection_string, r.conn_id)
          /\ task' = [task EXCEPT ![t] =
                          Suspended("create_pool", "connect", r.conn_id, r.cmap[r.conn_id], 0)]
          /\ returned' = NoCall
    /\ UNCHANGED <<_pools, pool>>

\* tools/connection.py connect: no await suspends, the handler is one step.
connect(t, connection_string) ==
    /\ task[t].pc = "idle"
    /\ LET r == register_connection(connection_string)
       IN /\ _connection_map' = r.cmap
          /\ _reverse_map' = r.rmap
          /\ registered' = Put(registered, connection_string, r.conn_id)
          /\ returned' = Call("connect", connection_string, Returns(r.conn_id))
    /\ UNCHANGED <<_pools, pool, task>>

\* tools/query.py pg_query -> execute_query -> Database.get_connection, up to
\* the first await that suspends: create_pool when the identifier has no
\* pool, conn.fetch when it has one.
pg_query(t, conn_id) ==
    /\ task[t].pc = "idle"
    /\ IF conn_id = EmptyId
       THEN /\ returned' = Call("pg_query", conn_id,
                                Raises("ValueError", "Connection ID is required"))
            /\ UNCHANGED <<pool, task>>
       ELSE IF conn_id \notin DOMAIN _pools
       THEN LET cs == get_connection_string(conn_id)
            IN IF ~ cs.ok
               THEN /\ returned' = Call("pg_query", conn_id,
                                        Raises("ValueError", "Unknown connection ID"))
                    /\ UNCHANGED <<pool, task>>
               ELSE /\ PoolsInUse < MaxPools
                    /\ task' = [task EXCEPT ![t] =
                                    Suspended("create_pool", "pg_query", conn_id, cs.val, 0)]
                    /\ returned' = NoCall
                    /\ UNCHANGED pool
       ELSE LET a == Acquire("pg_query", conn_id, pool, _pools[conn_id])
            IN /\ task' = [task EXCEPT ![t] = a.task]
               /\ pool' = a.pool
               /\ returned' = a.returned
    /\ UNCHANGED <<registry, registered>>

\* Database.initialize lines 87-94 resuming after create_pool succeeded: the
\* new pool is stored under conn_id, whatever is stored there by now, and
\* get_connection goes on to line 107 without suspending.
create_pool_done(t) ==
    /\ task[t].pc = "create_pool"
    /\ LET p == CHOOSE q \in PoolHandles :
                    /\ pool[q].state = "unused"
                    /\ \A q2 \in PoolHandles : pool[q2].state = "unused" => q <= q2
           po == [pool EXCEPT ![p] = [state |-> "open", conn_id |-> task[t].arg,
                                      dsn |-> task[t].dsn, leased |-> 0]]
           a == Acquire(task[t].op, task[t].arg, po, p)
       IN /\ _pools' = Put(_pools, task[t].arg, p)
          /\ task' = [task EXCEPT ![t] = Carry(a.task, task[t].query)]
          /\ pool' = a.pool
          /\ returned' = a.returned
    /\ UNCHANGED <<_connection_map, _reverse_map, registered>>

\* A failed construction that is swallowed: the caller gets an answer.
create_pool_failed_Swallowed(t, exc) ==
    /\ task[t].pc = "create_pool"
    /\ task' = [task EXCEPT ![t] = IdleTask]
    /\ returned' = Call(task[t].op, task[t].arg, Returns(<<"rows">>))
    /\ UNCHANGED <<registry, pool, registered>>

\* create_pool raising (OSError: network failure, authentication rejected;
\* CancelledError: the task was cancelled while it waited): the exception
\* leaves initialize and get_connection; nothing is stored.
create_pool_failed(t, exc) ==
    /\ task[t].pc = "create_pool"
    /\ task' = [task EXCEPT ![t] = IdleTask]
    /\ returned' = Call(task[t].op, task[t].arg, Raises(exc, "create_pool"))
    /\ UNCHANGED <<registry, pool, registered>>

\* A failed statement that is sent again on the same lease.
fetch_end_Retries(t, how) ==
    /\ task[t].pc = "fetch"
    /\ how = "return" => pool[task[t].pool].state # "closed"
    /\ IF how = "raise"
       THEN /\ returned' = Call(task[t].op, task[t].arg,
                                Raises("PostgresError", "query failed"))
            /\ UNCHANGED <<task, pool>>
       ELSE /\ task' = [task EXCEPT ![t] = IdleTask]
            /\ pool' = Collect([pool EXCEPT ![task[t].pool].leased = @ - 1], _pools, task')
            /\ returned' = Call(task[t].op, task[t].arg,
                   IF how = "return" THEN Returns(<<"rows">>)
                   ELSE Raises("CancelledError", "cancelled"))
    /\ UNCHANGED <<registry, registered>>

\* execute_query lines 40-45: conn.fetch answered, raised, or the task was
\* cancelled while it waited; the lease ends in each case.  On a pool that
\* was terminated under the lease the connection is dead: fetch cannot answer.
\* The answer to a resource handler's quoting statement does not end the
\* handler: quote_ident_done takes it from there.
fetch_end(t, how) ==
    /\ task[t].pc = "fetch"
    /\ how = "return" => pool[task[t].pool].state # "closed"
    /\ how = "return" => task[t].query # sanitize_query
    /\ task' = [task EXCEPT ![t] = IdleTask]
    /\ pool' = Collect(ReleaseOnExit(pool, task[t].pool, how), _pools, task')
    /\ returned' = Call(task[t].op, task[t].arg,
           CASE how = "return" -> Returns(<<"rows">>)
             [] how = "raise"  -> Raises("PostgresError", "query failed")
             [] how = "cancel" -> Raises("CancelledError", "cancelled"))
    /\ UNCHANGED <<registry, registered>>

\* disconnect lines 55-57 after db.close(conn_id) returned normally.
ForgetMappings(conn_id) ==
    LET connection_string == IF conn_id \in DOMAIN _connection_map
                             THEN _connection_map[conn_id] ELSE <<"None">>
    IN /\ _connection_map' = Del(_connection_map, conn_id)
       /\ _reverse_map' = Del(_reverse_map, connection_string)

\* tools/connection.py disconnect -> Database.close(conn_id), up to the await
\* of Pool.close() (which returns at once on a pool already closed).  A
\* conn_id found in _connection_map is a uuid string, so close() takes its
\* "if conn_id:" branch.
disconnect(t, conn_id) ==
    /\ task[t].pc = "idle"
    /\ IF conn_id \notin DOMAIN _connection_map
       THEN /\ returned' = Call("disconnect", conn_id,
                                Returns(<<"success: False", "Unknown connection ID">>))
            /\ UNCHANGED <<registry, pool, task>>
       ELSE IF conn_id \in DOMAIN _pools
       THEN LET p == _pools[conn_id]
            IN IF pool[p].state = "closed"
               THEN /\ _pools' = Del(_pools, conn_id)
                    /\ ForgetMappings(conn_id)
                    /\ pool' = Collect(pool, _pools', task)
                    /\ returned' = Call("disconnect", conn_id, Returns(<<"success: True">>))
                    /\ UNCHANGED task
               ELSE /\ pool' = [pool EXCEPT ![p].state = "closing"]
                    /\ task' = [task EXCEPT ![t] =
                                    Suspended("pool_close", "disconnect", conn_id, <<>>, p)]
                    /\ returned' = NoCall
                    /\ UNCHANGED registry
       ELSE /\ ForgetMappings(conn_id)
            /\ returned' = Call("disconnect", conn_id, Returns(<<"success: True">>))
            /\ UNCHANGED <<_pools, pool, task>>
    /\ UNCHANGED registered

\* Database.close line 121 resuming: Pool.close() returns once every leased
\* connection is back; line 122 deletes the entry (KeyError when it is gone,
\* which disconnect's except turns into success: False), then disconnect
\* forgets the mappings.
pool_close_done(t) ==
    /\ task[t].pc = "pool_close"
    /\ pool[task[t].pool].leased = 0
    /\ task' = [task EXCEPT ![t] = IdleTask]
    /\ IF task[t].arg \notin DOMAIN _pools
       THEN /\ returned' = Call("disconnect", task[t].arg, except_Exception("KeyError"))
            /\ UNCHANGED registry
       ELSE /\ _pools' = Del(_pools, task[t].arg)
            /\ ForgetMappings(task[t].arg)
            /\ returned' = Call("disconnect", task[t].arg, Returns(<<"success: True">>))
    /\ pool' = Collect([pool EXCEPT ![task[t].pool].state = "closed"], _pools', task')
    /\ UNCHANGED registered

\* Database.close line 121 with the task cancelled while Pool.close() waits:
\* asyncpg terminates the pool (leased connections included) and re-raises;
\* line 122 is not reached, and CancelledError is no Exception, so it leaves
\* disconnect too.  The entry stays in _pools, on a closed pool.
pool_close_cancelled(t) ==
    /\ task[t].pc = "pool_close"
    /\ task' = [task EXCEPT ![t] = IdleTask]
    /\ returned' = Call("disconnect", task[t].arg, Raises("CancelledError", "pool.close"))
    /\ pool' = Collect([pool EXCEPT ![task[t].pool].state = "closed"], _pools, task')
    /\ UNCHANGED <<registry, registered>>

\* Database.close line 121 with Pool.close() failing on an exception of
\* class Exception (closing a connection failed): asyncpg terminates the pool
\* and re-raises; line 122 and disconnect lines 58-62 are not reached, the
\* entry and the mappings stay, and disconnect's except answers.
pool_close_failed(t) ==
    /\ task[t].pc = "pool_close"
    /\ task' = [task EXCEPT ![t] = IdleTask]
    /\ returned' = Call("disconnect", task[t].arg, except_Exception("OSError"))
    /\ pool' = Collect([pool EXCEPT ![task[t].pool].state = "closed"], _pools, task')
    /\ UNCHANGED <<registry, registered>>

Next ==
    \E t \in Tasks :
        \/ \E d \in ClientDescriptors : connect(t, d)
        \/ \E id \in ConnIds : pg_query(t, id)
        \/ create_pool_done(t)
        \/ \E exc \in {"OSError", "CancelledError"} : create_pool_failed(t, exc)
        \/ \E how \in {"return", "raise", "cancel"} : fetch_end(t, how)
        \/ \E id \in ConnIds : disconnect(t, id)
        \/ pool_close_done(t)
        \/ pool_close_cancelled(t)
        \/ pool_close_failed(t)

Spec == Init /\ [][Next]_vars

\* The identifier mapper on its own: one caller registering and
\* disconnecting any of the descriptors, no query and so no pool.
\* Strings a client can send that describe no connection: the empty string
\* and a string that is no URL.
InvalidDescriptors == {<<>>, <<"not a url">>}

MapperConnIds ==
    { postgres_connection_to_uuid(Canonical(d)) : d \in Descriptors \cup InvalidDescriptors }

MapperNext ==
    \/ \E d \in Descriptors \cup InvalidDescriptors : connect(1, d)
    \/ \E id \in MapperConnIds : disconnect(1, id)

MapperSpec == Init /\ [][MapperNext]_vars

\* ------------------------------------------------- Database.close on its own
\* list(self._pools.items()): the entries of the pool map at this moment, as
\* (identifier, pool) pairs in the order of the dictionary.
items(pmap) ==
    LET n == Cardinality(DOMAIN pmap)
        orders == { f \in [1 .. n -> DOMAIN pmap] :
                        \A i, j \in 1 .. n : f[i] = f[j] => i = j }
    IN { [i \in 1 .. n |-> <<f[i], pmap[f[i]]>>] : f \in orders }

\* Database.close from the entry at the head of snapshot up to the first
\* Pool.close() that suspends, or to the end: "await pool.close()" on a pool
\* already closed returns at once, then "del self._pools[id]" deletes the
\* entry or raises KeyError.  close(conn_id), lines 119-122, is the same two
\* statements on the one entry of conn_id; close(), lines 126-129, on each
\* entry of the snapshot.
RECURSIVE close_loop(_, _, _, _)
close_loop(conn_id, pmap, po, snapshot) ==
    IF snapshot = <<>>
    THEN [pools |-> pmap, pool |-> po, task |-> IdleTask,
          returned |-> Call("close", conn_id, Returns(<<"None">>))]
    ELSE LET id == Head(snapshot)[1]
             p == Head(snapshot)[2]
         IN IF po[p].state # "closed"
            THEN [pools |-> pmap,
                  pool |-> [po EXCEPT ![p].state = "closing"],
                  task |-> [pc |-> "close_await", op |-> "close", arg |-> conn_id,
                            dsn |-> <<>>, pool |-> p, snapshot |-> snapshot,
                            query |-> <<>>],
                  returned |-> NoCall]
            ELSE IF id \notin DOMAIN pmap
            THEN [pools |-> pmap, pool |-> po, task |-> IdleTask,
                  returned |-> Call("close", conn_id, Raises("KeyError", "del"))]
            ELSE close_loop(conn_id, Del(pmap, id), po, Tail(snapshot))

\* Database.close(conn_id) called: "if conn_id:" sends the empty identifier
\* (and None) to the close-all branch.
close(t, conn_id) ==
    /\ task[t].pc = "idle"
    /\ \E snapshot \in IF conn_id = EmptyId THEN items(_pools)
                       ELSE IF conn_id \in DOMAIN _pools
                       THEN {<< <<conn_id, _pools[conn_id]>> >>}
                       ELSE {<<>>} :
          LET r == close_loop(conn_id, _pools, pool, snapshot)
          IN /\ _pools' = r.pools
             /\ task' = [task EXCEPT ![t] = r.task]
             /\ pool' = Collect(r.pool, r.pools, task')
             /\ returned' = r.returned
    /\ UNCHANGED <<_connection_map, _reverse_map, registered>>

\* Database.close that forgets the descriptor of the entry it deletes.
close_done_ForgetsMapping(t) ==
    /\ task[t].pc = "close_await"
    /\ pool[task[t].pool].leased = 0
    /\ LET closed == [pool EXCEPT ![task[t].pool].state = "closed"]
           r == close_loop(task[t].arg, _pools, closed, task[t].snapshot)
       IN /\ _pools' = r.pools
          /\ task' = [task EXCEPT ![t] = r.task]
          /\ pool' = Collect(r.pool, r.pools, task')
          /\ returned' = r.returned
    /\ ForgetMappings(Head(task[t].snapshot)[1])
    /\ UNCHANGED registered

\* Database.close resuming at line 121 or 128: Pool.close() returns once
\* every leased connection is back; the entry is deleted and the loop goes on.
close_done(t) ==
    /\ task[t].pc = "close_await"
    /\ pool[task[t].pool].leased = 0
    /\ LET closed == [pool EXCEPT ![task[t].pool].state = "closed"]
           r == close_loop(task[t].arg, _pools, closed, task[t].snapshot)
       IN /\ _pools' = r.pools
          /\ task' = [task EXCEPT ![t] = r.task]
          /\ pool' = Collect(r.pool, r.pools, task')
          /\ returned' = r.returned
    /\ UNCHANGED <<_connection_map, _reverse_map, registered>>

\* Pool.close() raising at line 121 or 128 (the task was cancelled, or
\* closing a connection failed): asyncpg terminates the pool and re-raises;
\* the exception leaves Database.close, the del and the rest of the snapshot
\* are not reached.
close_raised(t, exc) ==
    /\ task[t].pc = "close_await"
    /\ task' = [task EXCEPT ![t] = IdleTask]
    /\ returned' = Call("close", task[t].arg, Raises(exc, "pool.close"))
    /\ pool' = Collect([pool EXCEPT ![task[t].pool].state = "closed"], _pools, task')
    /\ UNCHANGED <<registry, registered>>

\* The Database object under concurrent callers of its own methods:
\* register_connection, get_connection (through a query), close(conn_id)
\* and close().
DbNext ==
    \E t \in Tasks :
        \/ \E d \in ClientDescriptors : connect(t, d)
        \/ \E id \in ConnIds : pg_query(t, id)
        \/ create_pool_done(t)
        \/ \E exc \in {"OSError", "CancelledError"} : create_pool_failed(t, exc)
        \/ \E how \in {"return", "raise", "cancel"} : fetch_end(t, how)
        \/ \E id \in ConnIds : close(t, id)
        \/ close_done(t)
        \/ \E exc \in {"OSError", "CancelledError"} : close_raised(t, exc)

DbSpec == Init /\ [][DbNext]_vars

\* ------------------------------------------------------- an exhausted pool
\* Enough concurrent queries to exhaust one pool and leave one waiting.
LeaseTasks == 1 .. (max_size + 1)

\* Pool.acquire() resuming for a caller that waited on a full pool: a
\* connection has been released and is handed to it.
acquire_done(t) ==
    /\ task[t].pc = "acquire"
    /\ pool[task[t].pool].state = "open"
    /\ pool[task[t].pool].leased < max_size
    /\ pool' = [pool EXCEPT ![task[t].pool].leased = @ + 1]
    /\ task' = [task EXCEPT ![t].pc = "fetch"]
    /\ returned' = NoCall
    /\ UNCHANGED <<registry, registered>>

\* The waiting caller's task is cancelled: the only other way out of
\* acquire(), which is called without a timeout (database.py:107).
acquire_cancelled(t) ==
    /\ task[t].pc = "acquire"
    /\ task' = [task EXCEPT ![t] = IdleTask]
    /\ returned' = Call(task[t].op, task[t].arg, Raises("CancelledError", "acquire"))
    /\ UNCHANGED <<registry, pool, registered>>

\* The states the queries start from: the descriptor D1 registered and
\* either its pool constructed by one first query that has ended, or two
\* pools constructed by two concurrent first queries (tasks 1 and 2, each
\* leasing from the pool it built; the first pool is no longer in the map).
LeaseInit ==
    /\ _connection_map = Put(EmptyDict, postgres_connection_to_uuid(Canonical(D1)), Canonical(D1))
    /\ _reverse_map = Put(EmptyDict, Canonical(D1), postgres_connection_to_uuid(Canonical(D1)))
    /\ registered = Put(EmptyDict, D1, postgres_connection_to_uuid(Canonical(D1)))
    /\ returned = NoCall
    /\ LET X == postgres_connection_to_uuid(Canonical(D1))
           built(n) == [state |-> "open", conn_id |-> X, dsn |-> Canonical(D1), leased |-> n]
       IN \/ /\ _pools = Put(EmptyDict, X, 1)
             /\ pool = [p \in PoolHandles |-> IF p = 1 THEN built(0) ELSE Unused]
             /\ task = [t \in LeaseTasks |-> IdleTask]
          \/ /\ _pools = Put(EmptyDict, X, 2)
             /\ pool = [p \in PoolHandles |-> IF p \in {1, 2} THEN built(1) ELSE Unused]
             /\ task = [t \in LeaseTasks |->
                           IF t \in {1, 2} THEN Suspended("fetch", "pg_query", X, <<>>, t)
                           ELSE IdleTask]

LeaseNext ==
    \E t \in LeaseTasks :
        \/ pg_query(t, postgres_connection_to_uuid(Canonical(D1)))
        \/ fetch_end(t, "return")
        \/ acquire_done(t)
        \/ acquire_cancelled(t)

LeaseSpec == LeaseInit /\ [][LeaseNext]_vars

\* The event loop resumes a waiting caller once a connection is free;
\* nothing obliges the holders to finish their queries.
FairLeaseSpec ==
    LeaseSpec /\ \A t \in LeaseTasks : WF_vars(acquire_done(t))

\* The database answers every statement or the statement times out
\* (command_timeout, database.py:92), and the event loop resumes a waiting
\* caller once a connection is free and stays free: the pool's queue of free
\* connections serves whoever asks first, a caller that did not wait
\* included.
LiveLeaseSpec ==
    FairLeaseSpec /\ \A t \in LeaseTasks : WF_vars(fetch_end(t, "return"))

\* ------------------------------------------------------------------ shutdown
\* config.py app_lifespan: the server serves tool calls until it is told to
\* stop; then, every handler having ended, line 24 awaits db.close(), and
\* when that has returned or raised the process is over.
ShuttingDown ==
    \/ \E u \in Tasks : task[u].op = "close" /\ task[u].arg = EmptyId
    \/ returned.op = "close"

serve == ~ ShuttingDown /\ Next

\* A lifespan with the close-all after the yield and no try/finally around
\* it: an exception thrown in at the yield leaves without closing.
app_lifespan_exit_NoFinally(t, how) ==
    /\ ~ ShuttingDown
    /\ \A u \in Tasks : task[u].pc = "idle"
    /\ IF how = "return"
       THEN close(t, EmptyId)
       ELSE /\ returned' = Call("app_lifespan", <<>>, Raises("Exception", "yield"))
            /\ UNCHANGED <<registry, pool, task, registered>>

\* config.py lines 19-24: the generator is resumed at its yield, normally
\* (how = "return") or with an exception thrown in (how = "raise": the
\* server failed or was cancelled); the finally runs in both cases.
app_lifespan_exit(t, how) ==
    /\ ~ ShuttingDown
    /\ \A u \in Tasks : task[u].pc = "idle"
    /\ how \in {"return", "raise"}
    /\ close(t, EmptyId)

ShutdownNext ==
    \/ serve
    \/ \E t \in Tasks :
          \/ \E how \in {"return", "raise"} : app_lifespan_exit(t, how)
          \/ close_done(t)
          \/ \E exc \in {"OSError", "CancelledError"} : close_raised(t, exc)

ShutdownSpec == Init /\ [][ShutdownNext]_vars

\* --------------------------------------------- statements and resources
\* tools/query.py and resources/data.py with the statement text followed.
Queries == {<<"SELECT 1">>, <<"SELECT * FROM t WHERE a = $1">>}

QueryConnIds == {EmptyId, postgres_connection_to_uuid(Canonical(D1))}

\* The one row the quoting statement answers for the path's schema and table.
identifiers ==
    <<[schema_ident |-> <<"\"public\"">>, table_ident |-> <<"\"users\"">>]>>

\* data.py:19-23.
sample_query ==
    <<"SELECT * FROM ">> \o identifiers[1].schema_ident \o <<".">>
        \o identifiers[1].table_ident \o <<" LIMIT 10">>

\* data.py:37-45: the names go in as parameters, the text is fixed.
rowcount_query ==
    <<"SELECT reltuples::bigint AS approximate_row_count FROM pg_class ",
      "JOIN pg_namespace ON pg_namespace.oid = pg_class.relnamespace ",
      "WHERE pg_namespace.nspname = $1 AND pg_class.relname = $2">>

ResourceOps == {"sample_table_data", "get_table_rowcount"}

\* The statement a resource handler runs once the quoting statement answered.
second_query(op) ==
    IF op = "sample_table_data" THEN sample_query ELSE rowcount_query

\* execute_query lines 24-40 up to the first await that suspends, run for
\* handler op over the pools po: what becomes of the task, of the pools, and
\* what the handler's caller sees if it ended.
execute_query_enter(op, query, conn_id, po) ==
    IF conn_id = EmptyId
    THEN [task |-> IdleTask, pool |-> po,
          returned |-> Call(op, conn_id,
                            Raises("ValueError", "Connection ID is required"))]
    ELSE IF conn_id \notin DOMAIN _pools
    THEN LET cs == get_connection_string(conn_id)
         IN IF ~ cs.ok
            THEN [task |-> IdleTask, pool |-> po,
                  returned |-> Call(op, conn_id,
                                    Raises("ValueError", "Unknown connection ID"))]
            ELSE [task |-> Carry(Suspended("create_pool", op, conn_id, cs.val, 0),
                                 query),
                  pool |-> po, returned |-> NoCall]
    ELSE LET a == Acquire(op, conn_id, po, _pools[conn_id])
         IN [task |-> Carry(a.task, query), pool |-> a.pool,
             returned |-> a.returned]

\* execute_query called by handler op in an idle task.
execute_query(t, op, query, conn_id) ==
    /\ task[t].pc = "idle"
    /\ LET r == execute_query_enter(op, query, conn_id, pool)
       IN /\ r.task.pc = "create_pool" => PoolsInUse < MaxPools
          /\ task' = [task EXCEPT ![t] = r.task]
          /\ pool' = r.pool
          /\ returned' = r.returned
    /\ UNCHANGED <<registry, registered>>

\* tools/query.py pg_query lines 51-65 with its text: the rows of
\* execute_query are what the tool returns.
pg_query_text(t, query, conn_id) == execute_query(t, "pg_query", query, conn_id)

\* A plan request that sends the statement as it came.
pg_explain_NoPrefix(t, query, conn_id) ==
    LET explain_query == query
    IN execute_query(t, "pg_explain", explain_query, conn_id)

\* tools/query.py pg_explain lines 67-87: line 81 builds the text, line 82
\* hands it to execute_query, whose result is returned as it is.
pg_explain(t, query, conn_id) ==
    LET explain_query == <<"EXPLAIN (FORMAT JSON) ">> \o query
    IN execute_query(t, "pg_explain", explain_query, conn_id)

\* ExplainSpec: the two query tools side by side.
ExplainNext ==
    \E t \in Tasks :
       \/ connect(t, D1)
       \/ \E q \in Queries, id \in QueryConnIds :
             \/ pg_query_text(t, q, id)
             \/ pg_explain(t, q, id)
       \/ create_pool_done(t)
       \/ create_pool_failed(t, "OSError")
       \/ \E how \in {"return", "raise", "cancel"} : fetch_end(t, how)

ExplainSpec == Init /\ [][ExplainNext]_vars

\* A handler that sends the interpolated statement at once.
sample_table_data_NoQuoting(t, conn_id) ==
    LET first_query == sample_query
    IN execute_query(t, "sample_table_data", first_query, conn_id)

\* resources/data.py sample_table_data lines 13-17: the quoting statement is
\* the first thing the handler runs.
sample_table_data(t, conn_id) ==
    LET first_query == sanitize_query
    IN execute_query(t, "sample_table_data", first_query, conn_id)

\* resources/data.py get_table_rowcount lines 27-31.
get_table_rowcount(t, conn_id) ==
    LET first_query == sanitize_query
    IN execute_query(t, "get_table_rowcount", first_query, conn_id)

\* The quoting statement answered and its lease is kept for what follows.
quote_ident_done_KeepsLease(t) ==
    /\ task[t].pc = "fetch"
    /\ task[t].op \in ResourceOps
    /\ task[t].query = sanitize_query
    /\ pool[task[t].pool].state # "closed"
    /\ LET r == execute_query_enter(task[t].op, second_query(task[t].op),
                                    task[t].arg, pool)
       IN /\ r.task.pc = "create_pool" => PoolsInUse < MaxPools
          /\ task' = [task EXCEPT ![t] = r.task]
          /\ pool' = r.pool
          /\ returned' = r.returned
    /\ UNCHANGED <<registry, registered>>

\* data.py lines 17-24 (31-46): the quoting statement answered.  Its
\* execute_query returns, which ends its lease; the handler reads the row,
\* builds the second statement and calls execute_query again, which looks
\* the identifier up afresh and runs to its own first suspension.
quote_ident_done(t) ==
    /\ task[t].pc = "fetch"
    /\ task[t].op \in ResourceOps
    /\ task[t].query = sanitize_query
    /\ pool[task[t].pool].state # "closed"
    /\ LET po == ReleaseOnExit(pool, task[t].pool, "return")
           r == execute_query_enter(task[t].op, second_query(task[t].op),
                                    task[t].arg, po)
       IN /\ r.task.pc = "create_pool" => PoolsInUse < MaxPools
          /\ task' = [task EXCEPT ![t] = r.task]
          /\ pool' = Collect(r.pool, _pools, task')
          /\ returned' = r.returned
    /\ UNCHANGED <<registry, registered>>

\* ResourceSpec: the data resources next to connect and disconnect.
ResourceNext ==
    \E t \in Tasks :
       \/ connect(t, D1)
       \/ \E id \in QueryConnIds :
             \/ sample_table_data(t, id)
             \/ get_table_rowcount(t, id)
             \/ disconnect(t, id)
       \/ create_pool_done(t)
       \/ create_pool_failed(t, "OSError")
       \/ \E how \in {"return", "raise", "cancel"} : fetch_end(t, how)
       \/ quote_ident_done(t)
       \/ pool_close_done(t)

ResourceSpec == Init /\ [][ResourceNext]_vars

\* ----------------------------------------------------------------- lifespan
\* config.py app_lifespan around a server that serves connect and the two
\* query tools.
serve_queries == ~ ShuttingDown /\ ExplainNext

LifespanNext ==
    \/ serve_queries
    \/ \E t \in Tasks :
          \/ \E how \in {"return", "raise"} : app_lifespan_exit(t, how)
          \/ close_done(t)
          \/ \E exc \in {"OSError", "CancelledError"} : close_raised(t, exc)

LifespanSpec == Init /\ [][LifespanNext]_vars

\* ---------------------------------------------------------- resource reads
\* resources/schema.py list_schemas lines 12-26: one statement through
\* execute_query (the text is abridged).
list_schemas(t, conn_id) ==
    LET query == <<"SELECT schema_name, description FROM information_schema.schemata">>
    IN execute_query(t, "list_schemas", query, conn_id)

\* resources/extensions.py get_extension_yaml lines 10-22: the parsed file of
\* the extension when there is one, None otherwise; the extensions directory
\* is not part of the state.
get_extension_yaml == {<<"yaml_context">>, <<"None">>}

\* resources/extensions.py get_extension_details lines 60-69: the answer is
\* made from the extension's file alone; conn_id and schema are not used and
\* nothing is awaited.
get_extension_details(t, conn_id) ==
    /\ task[t].pc = "idle"
    /\ \E yaml_context \in get_extension_yaml :
          returned' = Call("get_extension_details", conn_id,
                           Returns(IF yaml_context # <<"None">> THEN yaml_context
                                   ELSE <<"">>))
    /\ UNCHANGED <<registry, pool, task, registered>>

\* Reads of pgmcp://{conn_id}/... resources next to connect.
ReadNext ==
    \E t \in Tasks :
       \/ connect(t, D1)
       \/ \E id \in QueryConnIds \ {EmptyId} :
             \/ list_schemas(t, id)
             \/ sample_table_data(t, id)
             \/ get_extension_details(t, id)
       \/ create_pool_done(t)
       \/ create_pool_failed(t, "OSError")
       \/ \E how \in {"return", "raise", "cancel"} : fetch_end(t, how)
       \/ quote_ident_done(t)

ReadSpec == Init /\ [][ReadNext]_vars

\* ------------------------------------------------------ the Streamlit client
\* postgres_client_tan.py run lines 621-626: the sidebar button, shown while
\* st.session_state.conn_id holds an identifier (one that a connect call
\* returned, establish_connection line 359).  Pressing it sets
\* session_state.conn_id to None and reports "Disconnected from database";
\* no tool of the server is called.
run_Disconnect(conn_id) ==
    /\ conn_id \in { registered[d] : d \in DOMAIN registered }
    /\ returned' = Call("Disconnect from Database", conn_id,
                        Returns(<<"Disconnected from database">>))
    /\ UNCHANGED <<registry, pool, task, registered>>

\* The client app against the server: connect and queries through the
\* tools, and the button.
ClientNext ==
    \/ ExplainNext
    \/ \E conn_id \in QueryConnIds : run_Disconnect(conn_id)

ClientSpec == Init /\ [][ClientNext]_vars

\* ================================================================== claims
ClientId == postgres_connection_to_uuid(Canonical(D1))

\* Identifiers register_connection has ever returned.
Issued == { registered[d] : d \in DOMAIN registered }

\* Pools constructed and not yet closed.
OpenPools == { p \in PoolHandles : pool[p].state \in {"open", "closing"} }

Holders(p) == { t \in Tasks : task[t].pc = "fetch" /\ task[t].pool = p }

\* C1: single-flight pool creation: in every reachable state at most one
\* constructed, not yet closed pool exists per identifier, however many
\* callers made the first use of the identifier concurrently.
C1_AtMostOneOpenPoolPerId ==
    \A id \in ConnIds :
        Cardinality({ p \in OpenPools : pool[p].conn_id = id }) <= 1

\* C2: a leased connection is back in its pool on every exit of the query
\* (return, raise, cancellation): each pool's leased count is exactly the
\* number of callers still inside the lease, so once the queries have
\* completed it is zero and the pool can lease again.
C2_LeaseAlwaysReturned ==
    \A p \in PoolHandles :
        /\ pool[p].leased = Cardinality(Holders(p))
        /\ pool[p].leased <= max_size

C2_Witness ==
    /\ returned.op = "pg_query"
    /\ returned.ret = Raises("PostgresError", "query failed")
    /\ \A t \in Tasks : task[t].pc = "idle"
    /\ \E p \in PoolHandles : pool[p].state = "open" /\ pool[p].leased = 0

\* C3: pg_query with an identifier register_connection never returned raises
\* the unknown-identifier ValueError in the same step, suspends nowhere (no
\* pool construction, no lease) and leaves pools and mappings unchanged.
C3_UnknownIdFailsWithoutIO ==
    [][ \A t \in Tasks, id \in ConnIds :
            (id \notin Issued /\ pg_query(t, id)) =>
                /\ returned'.op = "pg_query"
                /\ returned'.ret.kind = "raise"
                /\ returned'.ret.val[1] = "ValueError"
                /\ UNCHANGED <<registry, pool, task>> ]_vars

C3_Witness ==
    /\ returned.op = "pg_query"
    /\ returned.arg = ClientId
    /\ returned.arg \notin Issued
    /\ returned.ret = Raises("ValueError", "Unknown connection ID")

\* C4: every identifier with an entry in the pool map has a descriptor in
\* the identifier -> descriptor map.
C4_PoolEntryIsRegistered ==
    \A id \in DOMAIN _pools : id \in DOMAIN _connection_map

\* C5: the identifier -> descriptor map and the descriptor -> identifier map
\* are mutual inverses.
C5_MutualInverses ==
    /\ \A id \in DOMAIN _connection_map :
           /\ _connection_map[id] \in DOMAIN _reverse_map
           /\ _reverse_map[_connection_map[id]] = id
    /\ \A cs \in DOMAIN _reverse_map :
           /\ _reverse_map[cs] \in DOMAIN _connection_map
           /\ _connection_map[_reverse_map[cs]] = cs

\* C6: when connect returns an identifier, the identifier is in the
\* identifier -> descriptor map in the state right after the return.
C6_ReturnedIdIsRegistered ==
    (returned.op = "connect" /\ returned.ret.kind = "return")
        => returned.ret.val \in DOMAIN _connection_map

\* C7: two descriptors with the same scheme, authority and database that
\* differ only in the query string are given the same identifier, whenever
\* and in whatever state each was registered.
C7_QueryStringIgnored ==
    \A s \in BOOLEAN, a \in Authorities, d \in Databases, q1, q2 \in QueryStrings :
        ( /\ Descriptor(s, a, d, q1) \in DOMAIN registered
          /\ Descriptor(s, a, d, q2) \in DOMAIN registered )
        => registered[Descriptor(s, a, d, q1)] = registered[Descriptor(s, a, d, q2)]

C7_Witness ==
    \E s \in BOOLEAN, a \in Authorities, d \in Databases :
        /\ Descriptor(s, a, d, <<>>) \in DOMAIN registered
        /\ Descriptor(s, a, d, <<"?", "sslmode=require">>) \in DOMAIN registered
        /\ returned.op = "connect"

\* C8: two descriptors that differ only by query-string options share one
\* pool: while both are registered, at most one open pool was built from
\* either of them.
C8_SharedPool ==
    ( /\ Canonical(D1) \in DOMAIN _reverse_map
      /\ Canonical(D2) \in DOMAIN _reverse_map )
    => Cardinality({ p \in OpenPools :
                        pool[p].dsn \in {Canonical(D1), Canonical(D2)} }) <= 1

\* C9: register is idempotent: right after register(D) returned an
\* identifier, a second register(D) returns the same identifier and leaves
\* both mappings as they are; and a step that touches the pool map or a
\* pool is no connect step.
C9_RegisterIdempotent ==
    /\ [](returned.op = "connect" =>
            LET second == register_connection(returned.arg)
            IN /\ second.conn_id = returned.ret.val
               /\ second.cmap = _connection_map
               /\ second.rmap = _reverse_map)
    /\ [][ <<_pools, pool>>' # <<_pools, pool>> =>
               \A t \in Tasks, d \in ClientDescriptors : ~ connect(t, d) ]_vars

C9_Witness ==
    /\ returned.op = "connect"
    /\ returned.ret = Returns(ClientId)
    /\ register_connection(returned.arg).conn_id = ClientId
    /\ ClientId \in DOMAIN _pools

\* C10: a registered descriptor is immutable: while an identifier stays
\* registered, no step changes the descriptor it resolves to.
C10_DescriptorImmutable ==
    [][ \A id \in DOMAIN _connection_map :
            id \in DOMAIN _connection_map' =>
                _connection_map'[id] = _connection_map[id] ]_vars

\* C11: Database.close(id) leaves the identifier mapping alone: a step that
\* changes the mappings is no step of close; in the state close(id) has returned in for an
\* issued identifier, id resolves and has no pool entry; and a query on id
\* made right then constructs a new pool.
C11_CloseKeepsMapping ==
    /\ []( ( /\ returned.op = "close"
             /\ returned.arg # EmptyId
             /\ returned.arg \in Issued
             /\ returned.ret.kind = "return" )
           => /\ get_connection_string(returned.arg).ok
              /\ returned.arg \notin DOMAIN _pools )
    /\ [][ \A t \in Tasks, id \in ConnIds \ {EmptyId} :
             /\ <<_connection_map, _reverse_map>>' # <<_connection_map, _reverse_map>>
                     => ~ (close(t, id) \/ close_done(t))
             /\ ( /\ returned = Call("close", id, Returns(<<"None">>))
                  /\ id \in Issued
                  /\ pg_query(t, id) ) =>
                     task'[t] = Suspended("create_pool", "pg_query", id,
                                          _connection_map[id], 0) ]_vars

C11_Witness ==
    /\ returned = Call("close", ClientId, Returns(<<"None">>))
    /\ ClientId \in Issued
    /\ ClientId \notin DOMAIN _pools
    /\ \E p \in PoolHandles : pool[p].state = "closed" /\ pool[p].conn_id = ClientId

\* C12: a release never destroys the identifier mapping: when disconnect(id)
\* has returned success, id still resolves to its descriptor, so that a
\* following query re-creates the pool.
C12_MappingSurvivesDisconnect ==
    (returned.op = "disconnect" /\ returned.ret = Returns(<<"success: True">>))
        => get_connection_string(returned.arg).ok

\* C19: an empty or unparsable descriptor is rejected by register_connection:
\* it is never given an identifier and never stored in the mappings.
C19_InvalidDescriptorRejected ==
    \A d \in InvalidDescriptors :
        /\ d \notin DOMAIN registered
        /\ Canonical(d) \notin DOMAIN _reverse_map
        /\ postgres_connection_to_uuid(Canonical(d)) \notin DOMAIN _connection_map

\* C13: Database.close(id) is idempotent: it never fails because the pool
\* entry is absent, however close calls on the identifier interleave.
C13_CloseIdempotent ==
    (returned.op = "close" /\ returned.arg # EmptyId)
        => returned.ret # Raises("KeyError", "del")

\* C14: disconnect answers instead of raising: for an identifier that is not
\* registered it returns success: False in the same step and changes
\* nothing; when Pool.close() fails, or the entry is gone when it is to be
\* deleted, the exception becomes a success: False answer.
C14_DisconnectNeverRaises ==
    [][ \A t \in Tasks :
          /\ \A id \in ConnIds :
                (id \notin DOMAIN _connection_map /\ disconnect(t, id)) =>
                    /\ returned' = Call("disconnect", id,
                                        Returns(<<"success: False", "Unknown connection ID">>))
                    /\ UNCHANGED <<registry, pool, task>>
          /\ (pool_close_failed(t) \/ pool_close_done(t)) =>
                    /\ returned'.op = "disconnect"
                    /\ returned'.ret.kind = "return"
                    /\ returned'.ret.val[1] \in {"success: True", "success: False"}
                    /\ task'[t] = IdleTask ]_vars

C14_Witness ==
    /\ returned = Call("disconnect", ClientId, Returns(<<"success: False", "OSError">>))
    /\ ClientId \in DOMAIN _connection_map
    /\ ClientId \in DOMAIN _pools

\* C15: a disconnect of a connected identifier whose pool closes without
\* error returns success: True, and in the state it returns in no open pool
\* exists for the identifier.
C15_DisconnectClosesPool ==
    /\ [](( /\ returned.op = "disconnect"
            /\ returned.ret = Returns(<<"success: True">>) )
           => \A p \in OpenPools : pool[p].conn_id # returned.arg)
    /\ [][ \A t \in Tasks :
               pool_close_done(t) => returned'.ret = Returns(<<"success: True">>) ]_vars

\* C16: Database.close() meets no lookup error whatever happens to the pool
\* map while it is suspended, and when it returns the pool map is empty.
C16_CloseAllSnapshot ==
    ( /\ returned.op = "close"
      /\ returned.arg = EmptyId
      /\ \A exc \in {"OSError", "CancelledError"} :
             returned.ret # Raises(exc, "pool.close") )
    => /\ returned.ret.kind = "return"
       /\ _pools = EmptyDict

\* C17: every query runs inside a transaction opened read-only: on a leased
\* connection the explicit read-only statement is sent before the query.
C17_ReadOnlyTransaction ==
    \A t \in Tasks :
        task[t].pc = "fetch" =>
            execute_query_statements(t) = <<"SET TRANSACTION READ ONLY", "query">>

\* C18: when the statement fails, it is not sent again, no rows are
\* returned, the exception of conn.fetch reaches the caller with its message,
\* and the pool entry and the mappings are unchanged.
C18_FailedQueryNotRetried ==
    [][ \A t \in Tasks :
          fetch_end(t, "raise") =>
              /\ task'[t] = IdleTask
              /\ returned' = Call(task[t].op, task[t].arg,
                                  Raises("PostgresError", "query failed"))
              /\ UNCHANGED registry ]_vars

C18_Witness ==
    /\ returned = Call("pg_query", ClientId, Raises("PostgresError", "query failed"))
    /\ ClientId \in DOMAIN _pools
    /\ pool[_pools[ClientId]].state = "open"
    /\ get_connection_string(ClientId).ok

\* C20: when create_pool fails, the exception reaches the caller in that one
\* step (the constructor is not invoked again), no pool entry is recorded,
\* the mappings are unchanged; and a query made right after, while the
\* identifier is registered and has no pool entry, constructs again.
C20_FailedConstructionNotRetried ==
    [][ \A t \in Tasks :
          /\ \A exc \in {"OSError", "CancelledError"} :
                create_pool_failed(t, exc) =>
                    /\ task'[t] = IdleTask
                    /\ returned' = Call(task[t].op, task[t].arg, Raises(exc, "create_pool"))
                    /\ UNCHANGED <<registry, pool>>
          /\ \A id \in ConnIds :
                ( /\ returned = Call("pg_query", id, Raises("OSError", "create_pool"))
                  /\ id \notin DOMAIN _pools
                  /\ id \in DOMAIN _connection_map
                  /\ pg_query(t, id) ) =>
                    task'[t] = Suspended("create_pool", "pg_query", id,
                                         _connection_map[id], 0) ]_vars

C20_Witness ==
    /\ returned = Call("pg_query", ClientId, Raises("OSError", "create_pool"))
    /\ ClientId \notin DOMAIN _pools
    /\ ClientId \in DOMAIN _connection_map
    /\ \A t \in Tasks : task[t].pc = "idle"

\* C21: a caller waiting on an exhausted pool does not wait without bound:
\* it leaves the wait (with the lease-timeout error) even when the holders
\* never release.
C21_BoundedLeaseWait ==
    \A t \in LeaseTasks : (task[t].pc = "acquire") ~> (task[t].pc # "acquire")

\* Connections leased from the pools constructed for identifier id.
RECURSIVE LeasedFrom(_, _)
LeasedFrom(ps, id) ==
    IF ps = {} THEN 0
    ELSE LET p == CHOOSE q \in ps : TRUE
         IN (IF pool[p].state # "unused" /\ pool[p].conn_id = id THEN pool[p].leased ELSE 0)
            + LeasedFrom(ps \ {p}, id)

\* C22: for every identifier, the connections leased to callers for it never
\* exceed the pool maximum.
C22_LeasesPerIdentifierBounded ==
    \A id \in ConnIds : LeasedFrom(PoolHandles, id) <= max_size

\* C24: identifier derivation is history-independent: in every reachable
\* state of the registry, register(D) would return the identifier a registry
\* just constructed returns for D, and every identifier register has
\* returned is that one.
C24_HistoryIndependent ==
    /\ \A d \in Descriptors \cup InvalidDescriptors :
           register_connection(d).conn_id = postgres_connection_to_uuid(Canonical(d))
    /\ \A d \in DOMAIN registered :
           registered[d] = postgres_connection_to_uuid(Canonical(d))

C24_Witness ==
    /\ returned.op = "connect"
    /\ Cardinality(DOMAIN _reverse_map) >= 2
    /\ \E d \in DOMAIN registered :
           /\ Canonical(d) \notin DOMAIN _reverse_map
           /\ registered[d] \notin DOMAIN _connection_map

\* C25: when the shutdown close-all has returned and nothing else is
\* running, every pool constructed during the lifetime of the process has
\* been closed.
C25_ShutdownClosesEveryPool ==
    ( /\ returned = Call("close", EmptyId, Returns(<<"None">>))
      /\ \A t \in Tasks : task[t].pc = "idle" )
    => OpenPools = {}

\* C26: Database.close(id) drains before it closes: the entry of a pool that
\* was not terminated leaves the pool map only when no lease taken from the
\* pool is outstanding, and Pool.close() returns only then.
C26_CloseDrainsLeases ==
    [][ /\ \A id \in DOMAIN _pools :
              (id \notin DOMAIN _pools' /\ pool[_pools[id]].state # "closed")
                  => pool[_pools[id]].leased = 0
        /\ \A t \in Tasks :
              close_done(t) => pool[task[t].pool].leased = 0 ]_vars

\* C27: scheme normalization is transparent: for a descriptor D without the
\* prefix, register(D) and register("postgresql://" + D) return the same
\* identifier and leave the same mappings, and every key of the
\* descriptor -> identifier map carries the prefix.
C27_SchemeNormalization ==
    /\ \A cs \in DOMAIN _reverse_map : startswith(cs, Scheme)
    /\ \A d \in Descriptors \cup InvalidDescriptors :
           ~ startswith(d, Scheme) =>
               /\ register_connection(d) = register_connection(<<Scheme>> \o d)
               /\ ( /\ d \in DOMAIN registered
                    /\ (<<Scheme>> \o d) \in DOMAIN registered )
                  => registered[d] = registered[<<Scheme>> \o d]

C27_Witness ==
    \E d \in Descriptors :
        /\ ~ startswith(d, Scheme)
        /\ d \in DOMAIN registered
        /\ (<<Scheme>> \o d) \in DOMAIN registered
        /\ DOMAIN _reverse_map = {<<Scheme>> \o d}

\* C28: the identifier the client computes for a descriptor, with or without
\* the prefix, is the identifier the server's register_connection returns
\* for it.
C28_ClientServerAgree ==
    /\ \A d \in DOMAIN registered : registered[d] = cli_postgres_connection_to_uuid(d)
    /\ (returned.op = "connect" /\ returned.ret.kind = "return")
           => returned.ret.val = cli_postgres_connection_to_uuid(returned.arg)

C28_Witness ==
    /\ returned.op = "connect"
    /\ \E d1, d2 \in DOMAIN registered :
           /\ startswith(d1, Scheme)
           /\ ~ startswith(d2, Scheme)
           /\ registered[d1] # registered[d2]

\* The handler's name on what a run of execute_query for pg_query left.
AsExplain(r) ==
    [task |-> IF r.task.pc = "idle" THEN r.task
              ELSE [r.task EXCEPT !.op = "pg_explain"],
     pool |-> r.pool,
     returned |-> IF r.returned.op = "none" THEN r.returned
                  ELSE [r.returned EXCEPT !.op = "pg_explain"]]

\* C23: pg_explain(q, id) is pg_query("EXPLAIN (FORMAT JSON) " + q, id) under
\* another name: a pg_explain step does to the task, the pools and the
\* caller what pg_query does on the prefixed text, the statement in flight
\* is the prefixed text, and the rows of the answer are returned as they
\* are.
C23_ExplainIsQueryOnPrefixedText ==
    [][ /\ \A t \in Tasks, q \in Queries, id \in QueryConnIds :
              pg_explain(t, q, id) =>
                  LET r == AsExplain(execute_query_enter(
                               "pg_query", <<"EXPLAIN (FORMAT JSON) ">> \o q, id, pool))
                  IN /\ task'[t] = r.task
                     /\ pool' = r.pool
                     /\ returned' = r.returned
                     /\ UNCHANGED registry
        /\ \A t \in Tasks :
              (task[t].op = "pg_explain" /\ task[t].pc # "idle") =>
                  /\ \E q \in Queries :
                        task[t].query = <<"EXPLAIN (FORMAT JSON) ">> \o q
                  /\ \A how \in {"return", "raise", "cancel"} :
                        fetch_end(t, how) =>
                            /\ pool'[task[t].pool].leased = pool[task[t].pool].leased - 1
                            /\ how = "return" => returned'.ret = Returns(<<"rows">>)
                            /\ how # "return" => returned'.ret.kind = "raise" ]_vars

C23_Witness ==
    \E t \in Tasks :
        /\ task[t].op = "pg_explain"
        /\ task[t].pc = "fetch"
        /\ task[t].query = <<"EXPLAIN (FORMAT JSON) ", "SELECT 1">>

\* Connections leased from the pools ps.
RECURSIVE Leased(_)
Leased(ps) ==
    IF ps = {} THEN 0
    ELSE LET p == CHOOSE q \in ps : TRUE
         IN (IF pool[p].state # "unused" THEN pool[p].leased ELSE 0)
            + Leased(ps \ {p})

C30_QuotingBeforeInterpolation ==
    [][ \A t \in Tasks :
          /\ (task'[t].query = sample_query /\ task[t].query # sample_query)
                => /\ task[t].op = "sample_table_data"
                   /\ task[t].pc = "fetch"
                   /\ task[t].query = sanitize_query
                   /\ pool[task[t].pool].state # "closed"
                   /\ quote_ident_done(t)
          /\ ( /\ task[t].op = "sample_table_data"
               /\ task[t].query = sanitize_query
               /\ task'[t].query # sanitize_query
               /\ task'[t].query # sample_query )
                => /\ task'[t] = IdleTask
                   /\ returned'.op = "sample_table_data"
                   /\ returned'.ret.kind = "raise" ]_vars

C30_Witness ==
    /\ returned = Call("sample_table_data", ClientId, Returns(<<"rows">>))
    /\ \A t \in Tasks : task[t].pc = "idle"

\* C31: every pg_query call eventually completes and its lease is back: a
\* task inside a call, waiting for a slot on a full pool or for the answer
\* to its statement, is eventually idle again, whatever the other callers
\* do (a task that is always eventually idle is one that leaves every call
\* it is in).
C31_EveryQueryCompletes ==
    \A t \in LeaseTasks : []<>(task[t].pc = "idle")

\* C32: register_connection suspends nowhere and constructs nothing: a
\* connect step answers in the step it starts in, leaves every task, the pool
\* map and every pool as they are; a pool comes into existence, and an entry
\* enters the pool map, only in a step that resumes a query on a registered
\* identifier after create_pool.
C32_RegisterIsAtomicAndLazy ==
    [][ /\ (\E t \in Tasks : connect(t, D1)) =>
              /\ returned'.op = "connect"
              /\ returned'.ret.kind = "return"
              /\ UNCHANGED <<task, _pools, pool>>
        /\ ( \/ DOMAIN _pools' # DOMAIN _pools
             \/ \E p \in PoolHandles :
                   pool[p].state = "unused" /\ pool'[p].state # "unused" ) =>
              \E t \in Tasks :
                  /\ task[t].pc = "create_pool"
                  /\ task[t].op \in {"pg_query", "pg_explain"}
                  /\ task[t].arg \in DOMAIN _connection_map
                  /\ create_pool_done(t) ]_vars

C32_Witness ==
    /\ returned = Call("connect", D1, Returns(ClientId))
    /\ ClientId \in DOMAIN _connection_map
    /\ _pools = EmptyDict
    /\ \A p \in PoolHandles : pool[p].state = "unused"
    /\ \A t \in Tasks : task[t].pc = "idle"

\* C33: Database.close(x), whatever single value x is (the empty identifier
\* included), touches at most the pool entry of x: in every step of such a
\* call the entries of all other identifiers stay in the pool map with their
\* pools as they were, and both identifier mappings are unchanged.
C33_CloseTouchesOnlyItsEntry ==
    [][ \A t \in Tasks, x \in ConnIds :
          ( \/ close(t, x)
            \/ /\ task[t].op = "close"
               /\ task[t].arg = x
               /\ \/ close_done(t)
                  \/ \E exc \in {"OSError", "CancelledError"} : close_raised(t, exc) )
          => /\ \A id \in DOMAIN _pools \ {x} :
                   /\ id \in DOMAIN _pools'
                   /\ _pools'[id] = _pools[id]
                   /\ pool'[_pools[id]] = pool[_pools[id]]
             /\ UNCHANGED <<_connection_map, _reverse_map>> ]_vars

\* C34: a failed disconnect leaves the state as it was: when db.close(id)
\* raised inside disconnect(id) and the answer is success: False with the
\* error, id still has its descriptor, the descriptor still has id, and the
\* pool entry of id is still there, so that the disconnect can be retried.
C34_FailedDisconnectKeepsState ==
    ( /\ returned.op = "disconnect"
      /\ returned.ret.kind = "return"
      /\ returned.ret.val[1] = "success: False"
      /\ returned.ret.val[2] # "Unknown connection ID" )
    => /\ returned.arg \in DOMAIN _connection_map
       /\ returned.arg \in DOMAIN _pools
       /\ \E cs \in DOMAIN _reverse_map : _reverse_map[cs] = returned.arg

C36_ClientServerAgreeOnDisconnect ==
    returned.op = "Disconnect from Database"
        => /\ returned.arg \notin DOMAIN _connection_map
           /\ \A cs \in DOMAIN _reverse_map : _reverse_map[cs] # returned.arg
           /\ \A p \in OpenPools : pool[p].conn_id # returned.arg

\* C37: every resource under pgmcp://{conn_id}/... validates the identifier:
\* a read with an identifier that no connect has returned ends with the
\* unknown-identifier ValueError and returns no data.
C37_ResourcesValidateIdentifier ==
    ( /\ returned.op \in {"list_schemas", "sample_table_data", "get_extension_details"}
      /\ returned.arg \notin Issued )
    => returned.ret = Raises("ValueError", "Unknown connection ID")

====
